---------------------------- MODULE Spec2Model ----------------------------
(***************************************************************************)
(* The policy decision engine of packages/rules_engine: Policy / Rule /    *)
(* Action values (policy.py), engine construction with its in-place rule   *)
(* sort, and RulesEngine.evaluate with condition matching over a nested    *)
(* fact context (engine.py).                                               *)
(*                                                                         *)
(* Python values are tagged records [t, v].  A Python str that is a fact   *)
(* or a field path is a sequence of one-character strings, so that         *)
(* path.split('.'), substring tests and lexicographic order are computed.  *)
(* A dict is a sequence of <<key, value>> pairs with distinct keys.        *)
(* Rule ids, action scopes, reasons and messages are never taken apart by  *)
(* the engine and are plain strings.                                       *)
(***************************************************************************)
EXTENDS Integers, Sequences, FiniteSets, TLC

VARIABLES
    declared,     \* Policy.rules as the caller declared them (kept for reference)
    rules,        \* policy.rules, the list the engine sorts in place and iterates
    constructed,  \* an engine has been constructed over the policy
    frames,       \* per calling thread: the invocation of evaluate() it runs or ran last
    returned,     \* per context: what a caller that keeps outcomes has kept
    sorting,      \* the list.sort() in progress on policy.rules, if any
    probe         \* the last direct call of a helper or constructor, and its outcome

vars == <<declared, rules, constructed, frames, returned, sorting, probe>>

(***************************************************************************)
(* Bounds of the model.                                                    *)
(***************************************************************************)
MaxRules == 2
NThreads == 2
MaxConditions == 2

Threads == 1..NThreads

\* Rule.priority: the default and a value above it.  The engine reads
\* priorities only through their order (the sort key).
Priorities == {0, 10}

(***************************************************************************)
(* Python values.                                                          *)
(***************************************************************************)
PyNone == [t |-> "null", v |-> <<>>]
PyBool(b) == [t |-> "bool", v |-> IF b THEN 1 ELSE 0]
PyInt(n) == [t |-> "int", v |-> n]
PyStr(s) == [t |-> "str", v |-> s]
PyList(xs) == [t |-> "list", v |-> xs]
PyDict(items) == [t |-> "map", v |-> items]

\* bool is a subclass of int: True == 1, False < 1
IsNumber(a) == a.t \in {"int", "bool"}

\* Characters in code-point order, for the lexicographic order of str.
Alphabet ==
    <<".", "0", "1", "2", "_", "a", "c", "d", "e", "f", "g", "i", "n", "o",
      "q", "r", "s", "t", "u">>

Ord(ch) == CHOOSE k \in 1..Len(Alphabet) : Alphabet[k] = ch

RECURSIVE PyEq(_, _)
PyEq(a, b) ==
    IF IsNumber(a) /\ IsNumber(b) THEN a.v = b.v
    ELSE IF a.t # b.t THEN FALSE
    ELSE IF a.t = "null" THEN TRUE
    ELSE IF a.t = "str" THEN a.v = b.v
    ELSE IF a.t = "list" THEN
        /\ Len(a.v) = Len(b.v)
        /\ \A k \in 1..Len(a.v) : PyEq(a.v[k], b.v[k])
    ELSE \* dict: same keys, equal values, whatever the insertion order
        /\ Len(a.v) = Len(b.v)
        /\ \A k \in 1..Len(a.v) :
              \E j \in 1..Len(b.v) :
                  a.v[k][1] = b.v[j][1] /\ PyEq(a.v[k][2], b.v[j][2])

\* Lexicographic comparison of two str values: "lt", "eq" or "gt".
RECURSIVE StrCmp(_, _)
StrCmp(s, u) ==
    IF s = <<>> /\ u = <<>> THEN "eq"
    ELSE IF s = <<>> THEN "lt"
    ELSE IF u = <<>> THEN "gt"
    ELSE IF Ord(Head(s)) < Ord(Head(u)) THEN "lt"
    ELSE IF Ord(Head(s)) > Ord(Head(u)) THEN "gt"
    ELSE StrCmp(Tail(s), Tail(u))

\* Rich comparison: "lt", "eq", "gt", or "error" (TypeError: the operands
\* are not ordered with respect to each other).
RECURSIVE PyCmp(_, _)
PyCmp(a, b) ==
    IF IsNumber(a) /\ IsNumber(b) THEN
        IF a.v < b.v THEN "lt" ELSE IF a.v > b.v THEN "gt" ELSE "eq"
    ELSE IF a.t = "str" /\ b.t = "str" THEN StrCmp(a.v, b.v)
    ELSE IF a.t = "list" /\ b.t = "list" THEN
        LET diff == {k \in 1..Len(a.v) : k <= Len(b.v) /\ ~PyEq(a.v[k], b.v[k])}
        IN  IF diff = {} THEN
                IF Len(a.v) < Len(b.v) THEN "lt"
                ELSE IF Len(a.v) > Len(b.v) THEN "gt" ELSE "eq"
            ELSE LET k == CHOOSE m \in diff : \A n \in diff : m <= n
                 IN  PyCmp(a.v[k], b.v[k])
    ELSE "error"

\* s occurs in u as a contiguous substring
IsSubstring(s, u) ==
    \E k \in 0..(Len(u) - Len(s)) :
        \A j \in 1..Len(s) : u[k + j] = s[j]

\* x in c: "true", "false", or "error" (TypeError)
PyIn(x, c) ==
    IF c.t = "list" THEN
        IF \E k \in 1..Len(c.v) : PyEq(x, c.v[k]) THEN "true" ELSE "false"
    ELSE IF c.t = "str" THEN
        IF x.t # "str" THEN "error"
        ELSE IF IsSubstring(x.v, c.v) THEN "true" ELSE "false"
    ELSE IF c.t = "map" THEN
        IF x.t \in {"list", "map"} THEN "error"  \* unhashable
        ELSE IF x.t = "str" /\ \E k \in 1..Len(c.v) : c.v[k][1] = x.v
             THEN "true" ELSE "false"
    ELSE "error"  \* None, int, bool: not iterable

Bool3(b) == IF b THEN "true" ELSE "false"
Not3(r) == IF r = "error" THEN "error" ELSE Bool3(r = "false")


(***************************************************************************)
(* Nested field lookup: RulesEngine._get_nested_value.                     *)
(***************************************************************************)
\* path.split('.'): the segments between the dots; '' splits into <<''>>
RECURSIVE Split(_)
Split(path) ==
    LET dots == {k \in 1..Len(path) : path[k] = "."}
    IN  IF dots = {} THEN <<path>>
        ELSE LET k == CHOOSE m \in dots : \A n \in dots : m <= n
             IN  <<SubSeq(path, 1, k - 1)>> \o Split(SubSeq(path, k + 1, Len(path)))

\* dict.get(key): the value stored under key, None when there is none
DictGet(d, key) ==
    LET hits == {k \in 1..Len(d.v) : d.v[k][1] = key}
    IN  IF hits = {} THEN PyNone ELSE d.v[CHOOSE k \in hits : TRUE][2]

\* the value reached so far is handed back when it is not a dict
RECURSIVE DescendKeepsReached(_, _)
DescendKeepsReached(value, keys) ==
    IF keys = <<>> THEN value
    ELSE IF value.t = "map"
         THEN DescendKeepsReached(DictGet(value, Head(keys)), Tail(keys))
    ELSE value

\* the loop over the keys: descend through dicts, None as soon as the
\* current value is not a dict
RECURSIVE Descend(_, _)
Descend(value, keys) ==
    IF keys = <<>> THEN value
    ELSE IF value.t = "map" THEN Descend(DictGet(value, Head(keys)), Tail(keys))
    ELSE PyNone

GetNestedValue(data, path) == Descend(data, Split(path))

(***************************************************************************)
(* Condition and rule matching: _evaluate_condition, _evaluate_rule.       *)
(* The outcome is "true", "false", or "error" when Python raises.          *)
(***************************************************************************)
\* condition.get(key, default) on the condition dict
CondGet(condition, key, default) ==
    IF key \in DOMAIN condition THEN condition[key] ELSE default

\* not_in tests one direction only, whatever the operands
NotInOneWay(actual_value, expected_value) == Not3(PyIn(actual_value, expected_value))

\* the not_in branch: the membership test turns around when the fact is a list
NotIn(actual_value, expected_value) ==
    IF actual_value.t = "list"
    THEN Not3(PyIn(expected_value, actual_value))
    ELSE Not3(PyIn(actual_value, expected_value))

\* a missing or null fact never satisfies !=
NotEqualUnlessNone(actual_value, expected_value) ==
    IF actual_value.t = "null" THEN "false"
    ELSE Bool3(~PyEq(actual_value, expected_value))

\* the != branch
NotEqual(actual_value, expected_value) == Bool3(~PyEq(actual_value, expected_value))

\* an operator the chain does not know is rejected with an exception
UnknownOperatorRaises(operator) == "error"

\* the final else of the operator chain: return False
UnknownOperator(operator) == "false"

EvaluateCondition(condition, context) ==
    LET field_path == CondGet(condition, "field", <<>>)
        operator == CondGet(condition, "operator", "==")
        expected_value == CondGet(condition, "value", PyNone)
        actual_value == GetNestedValue(context, field_path)
        cmp == PyCmp(actual_value, expected_value)
    IN  CASE operator = "==" -> Bool3(PyEq(actual_value, expected_value))
          [] operator = "!=" -> NotEqual(actual_value, expected_value)
          [] operator = ">" -> IF cmp = "error" THEN "error" ELSE Bool3(cmp = "gt")
          [] operator = "<" -> IF cmp = "error" THEN "error" ELSE Bool3(cmp = "lt")
          [] operator = ">=" ->
                IF cmp = "error" THEN "error" ELSE Bool3(cmp \in {"gt", "eq"})
          [] operator = "<=" ->
                IF cmp = "error" THEN "error" ELSE Bool3(cmp \in {"lt", "eq"})
          [] operator = "in" -> PyIn(actual_value, expected_value)
          [] operator = "not_in" -> NotIn(actual_value, expected_value)
          [] operator = "contains" -> PyIn(expected_value, actual_value)
          [] OTHER -> UnknownOperator(operator)

\* any() where all() belongs
RECURSIVE AllMatchAsAny(_, _)
AllMatchAsAny(conds, context) ==
    IF conds = <<>> THEN "false"
    ELSE LET r == EvaluateCondition(Head(conds), context)
         IN  IF r = "false" THEN AllMatchAsAny(Tail(conds), context) ELSE r

\* only the first condition of the list is looked at
RECURSIVE AllMatchHeadOnly(_, _)
AllMatchHeadOnly(conds, context) ==
    IF conds = <<>> THEN "true" ELSE EvaluateCondition(Head(conds), context)

\* all(...) over a generator: stops at the first condition that is false,
\* raises if a condition raises before that
RECURSIVE AllMatch(_, _)
AllMatch(conds, context) ==
    IF conds = <<>> THEN "true"
    ELSE LET r == EvaluateCondition(Head(conds), context)
         IN  IF r = "true" THEN AllMatch(Tail(conds), context) ELSE r

\* all() where any() belongs
RECURSIVE AnyMatchAsAll(_, _)
AnyMatchAsAll(conds, context) ==
    IF conds = <<>> THEN "true"
    ELSE LET r == EvaluateCondition(Head(conds), context)
         IN  IF r = "true" THEN AnyMatchAsAll(Tail(conds), context) ELSE r

\* any(...) over a generator: stops at the first condition that is true
RECURSIVE AnyMatch(_, _)
AnyMatch(conds, context) ==
    IF conds = <<>> THEN "false"
    ELSE LET r == EvaluateCondition(Head(conds), context)
         IN  IF r = "false" THEN AnyMatch(Tail(conds), context) ELSE r

\* the any key is looked for before the all key
EvaluateRuleAnyFirst(rule, context) ==
    IF "any" \in DOMAIN rule.conditions THEN AnyMatch(rule.conditions["any"], context)
    ELSE IF "all" \in DOMAIN rule.conditions THEN AllMatch(rule.conditions["all"], context)
    ELSE "false"

\* a group with neither key counts as having no condition to fail
EvaluateRuleNoKeyMatches(rule, context) ==
    IF "all" \in DOMAIN rule.conditions THEN AllMatch(rule.conditions["all"], context)
    ELSE IF "any" \in DOMAIN rule.conditions THEN AnyMatch(rule.conditions["any"], context)
    ELSE "true"

EvaluateRule(rule, context) ==
    IF "all" \in DOMAIN rule.conditions THEN AllMatch(rule.conditions["all"], context)
    ELSE IF "any" \in DOMAIN rule.conditions THEN AnyMatch(rule.conditions["any"], context)
    ELSE "false"

(***************************************************************************)
(* Actions (policy.py) and decisions (engine.py PolicyDecision).           *)
(***************************************************************************)
\* Optional[str] and Optional[int] fields
NoStr == [some |-> FALSE, s |-> ""]
SomeStr(s) == [some |-> TRUE, s |-> s]
NoInt == [some |-> FALSE, n |-> 0]
SomeInt(n) == [some |-> TRUE, n |-> n]

Action(type, scope, ttl_seconds, reason, message) ==
    [type |-> type, scope |-> scope, ttl_seconds |-> ttl_seconds,
     reason |-> reason, message |-> message]

\* x or default, for an Optional[str] x: None and '' are both falsy
OrDefault(x, default) == IF x.some /\ x.s # "" THEN x.s ELSE default

\* no exception: nothing about a failure is known
NoError == [type |-> "", rule_id |-> NoStr, field |-> NoStr, operator |-> NoStr]

\* the TypeError Python raises inside the comparison or membership test of
\* condition: it carries its message only, which names the operator for >, <,
\* >= and <= ("'>' not supported between instances of ...") and never the
\* rule or the field path
TypeError(condition) ==
    [type |-> "TypeError", rule_id |-> NoStr, field |-> NoStr,
     operator |-> IF condition.operator \in {">", "<", ">=", "<="}
                  THEN SomeStr(condition.operator) ELSE NoStr]

\* the condition of the list whose evaluation raises (the first one that
\* does: the ones before it let the all() or any() go on)
RECURSIVE RaisingCondition(_, _)
RaisingCondition(conds, context) ==
    IF EvaluateCondition(Head(conds), context) = "error" THEN Head(conds)
    ELSE RaisingCondition(Tail(conds), context)

\* the exception that leaves _evaluate_rule(rule, context) when it raises
RuleError(rule, context) ==
    TypeError(RaisingCondition(IF "all" \in DOMAIN rule.conditions
                               THEN rule.conditions["all"] ELSE rule.conditions["any"],
                               context))

NoResult ==
    [kind |-> "none", decision |-> "", matched_rules |-> <<>>,
     actions |-> <<>>, reason |-> "", error |-> NoError]

\* the call ended in an exception: nothing is returned
Raised(exc) ==
    [kind |-> "raised", decision |-> "", matched_rules |-> <<>>,
     actions |-> <<>>, reason |-> exc.type, error |-> exc]

PolicyDecision(decision, matched_rules, actions, reason) ==
    [kind |-> "decision", decision |-> decision, matched_rules |-> matched_rules,
     actions |-> actions, reason |-> reason, error |-> NoError]


(***************************************************************************)
(* Engine construction: RulesEngine.__init__ sorts policy.rules in place   *)
(* with list.sort(key=priority, reverse=True), which is stable.            *)
(***************************************************************************)
\* a sort that is not stable: r goes in front of the rules of its own priority
InsertRuleBeforeTies(sorted, r) ==
    LET n == Cardinality({k \in 1..Len(sorted) : sorted[k].priority > r.priority})
    IN  SubSeq(sorted, 1, n) \o <<r>> \o SubSeq(sorted, n + 1, Len(sorted))

\* priorities are taken as unique keys: a rule whose priority an earlier rule
\* has is dropped
InsertRuleUnlessTied(sorted, r) ==
    LET n == Cardinality({k \in 1..Len(sorted) : sorted[k].priority > r.priority})
    IN  IF \E k \in 1..Len(sorted) : sorted[k].priority = r.priority THEN sorted
        ELSE SubSeq(sorted, 1, n) \o <<r>> \o SubSeq(sorted, n + 1, Len(sorted))

\* where list.sort puts r among the already ordered rules: behind every rule
\* whose priority is at least r's, so that ties keep their order
InsertRule(sorted, r) ==
    LET n == Cardinality({k \in 1..Len(sorted) : sorted[k].priority >= r.priority})
    IN  SubSeq(sorted, 1, n) \o <<r>> \o SubSeq(sorted, n + 1, Len(sorted))

RECURSIVE SortInto(_, _)
SortInto(sorted, rest) ==
    IF rest = <<>> THEN sorted
    ELSE SortInto(InsertRule(sorted, Head(rest)), Tail(rest))

\* the sorted list is thrown away: the rules stay as declared
SortRulesDiscarded(rs) == rs

SortRules(rs) == SortInto(<<>>, rs)

(***************************************************************************)
(* RulesEngine.evaluate, as the frame of one invocation.                   *)
(*   pc: "idle" (no call yet), "loop" (in the for loop, about to take      *)
(*   rule i), "returned", "raised".  ctx is the number of the context the   *)
(*   caller passed and context the dict object itself, which the call      *)
(*   holds by reference.                                                   *)
(***************************************************************************)
\* the contexts callers pass, by number
ContextPool ==
    <<PyDict(<<
        <<<<"q", "a">>, PyDict(<< <<<<"s", "t", "a", "t", "u", "s">>, PyStr(<<"g", "r", "e", "e", "n">>)>> >>)>>,
        <<<<"d", "e", "f", "e", "c", "t", "s">>, PyDict(<< <<<<"c", "o", "u", "n", "t">>, PyInt(0)>> >>)>> >>),
      PyDict(<<
        <<<<"q", "a">>, PyDict(<< <<<<"s", "t", "a", "t", "u", "s">>, PyStr(<<"g", "r", "e", "e", "n">>)>> >>)>>,
        <<<<"d", "e", "f", "e", "c", "t", "s">>, PyDict(<< <<<<"c", "o", "u", "n", "t">>, PyInt(2)>> >>)>> >>),
      PyDict(<<
        <<<<"q", "a">>, PyDict(<< <<<<"s", "t", "a", "t", "u", "s">>, PyStr(<<"r", "e", "d">>)>> >>)>> >>),
      \* the defect count as text, as a form or a CSV import delivers it
      PyDict(<<
        <<<<"q", "a">>, PyDict(<< <<<<"s", "t", "a", "t", "u", "s">>, PyStr(<<"g", "r", "e", "e", "n">>)>> >>)>>,
        <<<<"d", "e", "f", "e", "c", "t", "s">>, PyDict(<< <<<<"c", "o", "u", "n", "t">>, PyStr(<<"2">>)>> >>)>> >>)>>

\* the contexts of the callers whose facts have the types the rules expect
Contexts == 1..3

\* every context of the pool
FactContexts == 1..Len(ContextPool)

IdleFrame ==
    [pc |-> "idle", ctx |-> 0, context |-> PyNone, i |-> 0, matched_rules |-> <<>>,
     all_actions |-> <<>>, result |-> NoResult]

\* accumulators that outlive the call (kept on the engine, or a shared default)
FreshFrameStale(prev, c) ==
    [pc |-> "loop", ctx |-> c, context |-> ContextPool[c], i |-> 1,
     matched_rules |-> prev.matched_rules,
     all_actions |-> prev.all_actions, result |-> NoResult]

\* an engine whose call raised stays failed: later calls raise the same
FreshFramePoisoned(prev, c) ==
    IF prev.pc = "raised"
    THEN [prev EXCEPT !.ctx = c, !.context = ContextPool[c]]
    ELSE [pc |-> "loop", ctx |-> c, context |-> ContextPool[c], i |-> 1,
          matched_rules |-> <<>>, all_actions |-> <<>>, result |-> NoResult]

\* entering evaluate(context): fresh accumulators, whatever the frame of an
\* earlier call (prev) held
FreshFrame(prev, c) ==
    [pc |-> "loop", ctx |-> c, context |-> ContextPool[c], i |-> 1,
     matched_rules |-> <<>>, all_actions |-> <<>>, result |-> NoResult]

\* a loop that stops at the first rule that matches
StepRuleStopAtMatch(f, rs) ==
    LET rule == rs[f.i]
        m == EvaluateRule(rule, f.context)
    IN  IF m = "error" THEN [f EXCEPT !.pc = "raised", !.result = Raised(RuleError(rule, f.context))]
        ELSE IF m = "true" THEN
            [f EXCEPT !.matched_rules = Append(@, rule.id),
                      !.all_actions = @ \o rule.actions,
                      !.i = Len(rs) + 1]
        ELSE [f EXCEPT !.i = @ + 1]

\* an exception raised while a rule is checked is swallowed: the rule counts
\* as not matching and the loop goes on
StepRuleSkipErrors(f, rs) ==
    LET rule == rs[f.i]
        m == EvaluateRule(rule, f.context)
    IN  IF m = "true" THEN
            [f EXCEPT !.matched_rules = Append(@, rule.id),
                      !.all_actions = @ \o rule.actions,
                      !.i = @ + 1]
        ELSE [f EXCEPT !.i = @ + 1]

\* a matching rule is noted in the caller's context dict
StepRuleMarksContext(f, rs) ==
    LET rule == rs[f.i]
        m == EvaluateRule(rule, f.context)
    IN  IF m = "error" THEN [f EXCEPT !.pc = "raised", !.result = Raised(RuleError(rule, f.context))]
        ELSE IF m = "true" THEN
            [f EXCEPT !.matched_rules = Append(@, rule.id),
                      !.all_actions = @ \o rule.actions,
                      !.context = PyDict(Append(@.v, <<<<"m", "a", "t", "c", "h", "e", "d">>,
                                                       PyBool(TRUE)>>)),
                      !.i = @ + 1]
        ELSE [f EXCEPT !.i = @ + 1]

\* one iteration of the for loop over self.policy.rules
StepRule(f, rs) ==
    LET rule == rs[f.i]
        m == EvaluateRule(rule, f.context)
    IN  IF m = "error" THEN [f EXCEPT !.pc = "raised", !.result = Raised(RuleError(rule, f.context))]
        ELSE IF m = "true" THEN
            [f EXCEPT !.matched_rules = Append(@, rule.id),
                      !.all_actions = @ \o rule.actions,
                      !.i = @ + 1]
        ELSE [f EXCEPT !.i = @ + 1]

DenyActions(all_actions) == SelectSeq(all_actions, LAMBDA a : a.type = "deny")

\* every action that is not a deny counts as a grant
GrantActionsNotDeny(all_actions) == SelectSeq(all_actions, LAMBDA a : a.type # "deny")

GrantActions(all_actions) == SelectSeq(all_actions, LAMBDA a : a.type = "grant")

\* the reason is taken from the last action instead of the first
DenyReasonOfLast(deny_actions) ==
    OrDefault(deny_actions[Len(deny_actions)].message, "Access denied by policy")

DenyReason(deny_actions) == OrDefault(deny_actions[1].message, "Access denied by policy")

GrantReasonOfLast(grant_actions) ==
    OrDefault(grant_actions[Len(grant_actions)].reason, "Access granted by policy")

GrantReason(grant_actions) == OrDefault(grant_actions[1].reason, "Access granted by policy")

\* the decision hands back every accumulated action, unfiltered
ResolveAllActions(matched_rules, all_actions) ==
    LET deny_actions == DenyActions(all_actions)
        grant_actions == GrantActions(all_actions)
    IN  IF deny_actions # <<>> THEN
            PolicyDecision("deny", matched_rules, all_actions, DenyReason(deny_actions))
        ELSE IF grant_actions # <<>> THEN
            PolicyDecision("grant", matched_rules, all_actions, GrantReason(grant_actions))
        ELSE PolicyDecision("deny", matched_rules, <<>>, "No matching grant rules")

\* grants are looked at before denies
ResolveGrantFirst(matched_rules, all_actions) ==
    LET deny_actions == DenyActions(all_actions)
        grant_actions == GrantActions(all_actions)
    IN  IF grant_actions # <<>> THEN
            PolicyDecision("grant", matched_rules, grant_actions, GrantReason(grant_actions))
        ELSE IF deny_actions # <<>> THEN
            PolicyDecision("deny", matched_rules, deny_actions, DenyReason(deny_actions))
        ELSE PolicyDecision("deny", matched_rules, <<>>, "No matching grant rules")

\* the fallback grants (fails open)
ResolveFailOpen(matched_rules, all_actions) ==
    LET deny_actions == DenyActions(all_actions)
        grant_actions == GrantActions(all_actions)
    IN  IF deny_actions # <<>> THEN
            PolicyDecision("deny", matched_rules, deny_actions, DenyReason(deny_actions))
        ELSE IF grant_actions # <<>> THEN
            PolicyDecision("grant", matched_rules, grant_actions, GrantReason(grant_actions))
        ELSE PolicyDecision("grant", matched_rules, <<>>, "Access granted by policy")

\* the decision once every rule has been checked: deny takes precedence
Resolve(matched_rules, all_actions) ==
    LET deny_actions == DenyActions(all_actions)
        grant_actions == GrantActions(all_actions)
    IN  IF deny_actions # <<>> THEN
            PolicyDecision("deny", matched_rules, deny_actions, DenyReason(deny_actions))
        ELSE IF grant_actions # <<>> THEN
            PolicyDecision("grant", matched_rules, grant_actions, GrantReason(grant_actions))
        ELSE PolicyDecision("deny", matched_rules, <<>>, "No matching grant rules")

\* the end of the loop: the return statement
Finish(f) ==
    [f EXCEPT !.pc = "returned", !.result = Resolve(f.matched_rules, f.all_actions)]

\* the whole call, run to its return or its exception
RECURSIVE RunCall(_, _)
RunCall(f, rs) ==
    IF f.pc # "loop" THEN f
    ELSE IF f.i > Len(rs) THEN Finish(f)
    ELSE RunCall(StepRule(f, rs), rs)

\* what evaluate(context) gives a caller that runs alone
Evaluated(rs, c) == RunCall(FreshFrame(IdleFrame, c), rs).result

\* accumulators shared by the calls in flight (kept on the engine instance)
StoreFrameShared(fr, t, f) ==
    [u \in DOMAIN fr |->
        IF u = t THEN f
        ELSE [fr[u] EXCEPT !.matched_rules = f.matched_rules,
                           !.all_actions = f.all_actions]]

\* a call writes its own frame only: matched_rules and all_actions are locals
StoreFrame(fr, t, f) == [fr EXCEPT ![t] = f]


(***************************************************************************)
(* The rules callers declare: ids in declaration order, a priority, a      *)
(* condition group and an action list drawn from the pools below.          *)
(***************************************************************************)
RuleIds == <<"grant_on_green", "deny_on_defects", "hot_unit_expedite", "cert_required">>

Condition(field, operator, value) ==
    [field |-> field, operator |-> operator, value |-> value]

QaStatus == <<"q", "a", ".", "s", "t", "a", "t", "u", "s">>
DefectsCount == <<"d", "e", "f", "e", "c", "t", "s", ".", "c", "o", "u", "n", "t">>

DefectsSeverity ==
    <<"d", "e", "f", "e", "c", "t", "s", ".", "s", "e", "v", "e", "r", "i", "t", "y">>

ConditionsPool ==
    <<[all |-> <<Condition(QaStatus, "==", PyStr(<<"g", "r", "e", "e", "n">>))>>],
      [all |-> <<Condition(DefectsCount, ">", PyInt(0))>>],
      [all |-> <<Condition(QaStatus, "==", PyStr(<<"r", "e", "d">>)),
                 Condition(DefectsCount, ">", PyInt(0))>>],
      [any |-> <<Condition(QaStatus, "==", PyStr(<<"g", "r", "e", "e", "n">>)),
                 Condition(DefectsCount, ">=", PyInt(1))>>],
      [any |-> <<Condition(DefectsCount, "<=", PyInt(0)),
                 Condition(QaStatus, "==", PyStr(<<"r", "e", "d">>))>>],
      [all |-> <<Condition(DefectsSeverity, "not_in",
                           PyList(<<PyStr(<<"m", "a", "j", "o", "r">>)>>))>>]>>

\* the condition groups of the policies that gate on QA status and defects
GatingConditions == 1..2

ActionsPool ==
    <<<<Action("grant", SomeStr("start"), SomeInt(1800), SomeStr("QA green"), NoStr)>>,
      <<Action("deny", SomeStr("start"), NoInt, NoStr, SomeStr("Open defects present"))>>,
      <<Action("alert", NoStr, NoInt, NoStr, SomeStr("Notify supervisor")),
        Action("log", NoStr, NoInt, NoStr, NoStr)>>,
      <<Action("grant", SomeStr("start"), NoInt, NoStr, NoStr),
        Action("grant", SomeStr("drive"), SomeInt(900), SomeStr("Hot unit expedited"), NoStr)>>,
      <<Action("deny", SomeStr("start"), NoInt, NoStr, NoStr),
        Action("deny", SomeStr("drive"), NoInt, NoStr, SomeStr("Vehicle on hold"))>>,
      <<Action("grant", SomeStr("unlock"), NoInt, SomeStr(""), NoStr)>>,
      <<Action("deny", SomeStr("unlock"), NoInt, NoStr, SomeStr(""))>>>>

Rule(id, priority, conditions, actions) ==
    [id |-> id, priority |-> priority, conditions |-> conditions, actions |-> actions]

(***************************************************************************)
(* The caller's side: declare a policy, construct engines, call evaluate.  *)
(***************************************************************************)
\* what a caller that keeps outcomes holds before its first call: per context
\* the first outcome it got, and whether its last call asked about a context
\* it had asked about before
NothingKept == [first |-> [c \in Contexts |-> NoResult], repeat |-> FALSE]

\* no list.sort() is running on policy.rules
NotSorting == [active |-> FALSE, saved |-> <<>>]

\* no helper is called directly.  A direct call is recorded with the helper's
\* name, its arguments by their numbers in the pools (the condition group as
\* its key and the list of its conditions; for a group with both keys, conds
\* is the all list and others the any list), how it ended ("pending" before
\* it runs) and, for a lookup, the value it returned
NoProbe ==
    [op |-> "none", group |-> "", conds |-> <<>>, others |-> <<>>, data |-> 0,
     path |-> 0, outcome |-> "none", value |-> PyNone]

Init ==
    /\ declared = <<>>
    /\ rules = <<>>
    /\ constructed = FALSE
    /\ frames = [t \in Threads |-> IdleFrame]
    /\ returned = NothingKept
    /\ sorting = NotSorting
    /\ probe = NoProbe

\* Policy(rules=[...]): one more rule in the policy under construction
AddRule(p, g, a) ==
    /\ ~constructed
    /\ Len(rules) < MaxRules
    /\ LET r == Rule(RuleIds[Len(rules) + 1], p, ConditionsPool[g], ActionsPool[a])
       IN  /\ rules' = Append(rules, r)
           /\ declared' = Append(declared, r)
    /\ UNCHANGED <<constructed, frames, returned, sorting, probe>>

\* RulesEngine(policy)
NewEngine ==
    /\ rules' = SortRules(rules)
    /\ constructed' = TRUE
    /\ UNCHANGED <<declared, frames, returned, sorting, probe>>

\* engine.evaluate(context), start to end, by the one caller of a sequential program
Evaluate(c) ==
    /\ constructed
    /\ frames' = StoreFrame(frames, 1, RunCall(FreshFrame(frames[1], c), rules))
    /\ UNCHANGED <<declared, rules, constructed, returned, sorting, probe>>

Next ==
    \/ \E p \in Priorities, g \in GatingConditions, a \in 1..Len(ActionsPool) :
          AddRule(p, g, a)
    \/ NewEngine
    \/ \E c \in Contexts : Evaluate(c)

Spec == Init /\ [][Next]_vars

(***************************************************************************)
(* A caller that keeps the first outcome it got per context, and calls     *)
(* evaluate repeatedly.  Its policies carry the action lists KeptActions   *)
(* of the pool.                                                            *)
(***************************************************************************)
KeptActions == 1..3

EvaluateAndKeep(c) ==
    /\ constructed
    /\ LET f == RunCall(FreshFrame(frames[1], c), rules)
       IN  /\ frames' = StoreFrame(frames, 1, f)
           /\ returned' = IF returned.first[c] = NoResult
                          THEN [returned EXCEPT !.first[c] = f.result, !.repeat = FALSE]
                          ELSE [returned EXCEPT !.repeat = TRUE]
    /\ UNCHANGED <<declared, rules, constructed, sorting, probe>>

NextKeep ==
    \/ \E p \in Priorities, g \in GatingConditions, a \in KeptActions :
          AddRule(p, g, a)
    \/ NewEngine
    \/ \E c \in Contexts : EvaluateAndKeep(c)

SpecKeep == Init /\ [][NextKeep]_vars

(***************************************************************************)
(* Concurrent callers of one constructed engine: each thread runs          *)
(* evaluate() one loop iteration at a time, interleaved with the others.   *)
(* Nobody touches the Policy meanwhile.                                    *)
(***************************************************************************)
\* (priority, conditions, actions) of the rules of the shared engine's policy
SharedRules == <<<<0, 1, 1>>, <<10, 2, 2>>, <<10, 1, 3>>>>

InitConc ==
    /\ \E pick \in [1..MaxRules -> 1..Len(SharedRules)] :
          declared = [k \in 1..MaxRules |->
                         Rule(RuleIds[k], SharedRules[pick[k]][1],
                              ConditionsPool[SharedRules[pick[k]][2]],
                              ActionsPool[SharedRules[pick[k]][3]])]
    /\ rules = SortRules(declared)
    /\ constructed = TRUE
    /\ frames = [t \in Threads |-> IdleFrame]
    /\ returned = NothingKept
    /\ sorting = NotSorting
    /\ probe = NoProbe

\* thread t enters evaluate(context)
Call(t, c) ==
    /\ frames[t].pc # "loop"
    /\ frames' = StoreFrame(frames, t, FreshFrame(frames[t], c))
    /\ UNCHANGED <<declared, rules, constructed, returned, sorting, probe>>

\* thread t runs one iteration of its for loop
RuleStep(t) ==
    /\ frames[t].pc = "loop"
    /\ frames[t].i <= Len(rules)
    /\ frames' = StoreFrame(frames, t, StepRule(frames[t], rules))
    /\ UNCHANGED <<declared, rules, constructed, returned, sorting, probe>>

\* thread t leaves the loop and returns its decision
Return(t) ==
    /\ frames[t].pc = "loop"
    /\ frames[t].i > Len(rules)
    /\ frames' = StoreFrame(frames, t, Finish(frames[t]))
    /\ UNCHANGED <<declared, rules, constructed, returned, sorting, probe>>

NextConc ==
    \/ \E t \in Threads, c \in Contexts : Call(t, c)
    \/ \E t \in Threads : RuleStep(t)
    \/ \E t \in Threads : Return(t)

SpecConc == InitConc /\ [][NextConc]_vars

(***************************************************************************)
(* A second engine constructed over the Policy an engine is evaluating:    *)
(* one thread runs evaluate() one loop iteration at a time while another   *)
(* runs RulesEngine(policy), that is policy.rules.sort(key=..., reverse=   *)
(* True) on the list the loop iterates.  Nothing in engine.py orders the   *)
(* two.  The key lambda is Python code, so the interpreter may switch      *)
(* threads inside the sort; CPython empties the list for the duration of a *)
(* sort and puts the sorted items back at its end, and the for loop's list *)
(* iterator ends as soon as its index is not below the list's length.      *)
(***************************************************************************)
\* (priority, conditions, actions) of the rules of the policy both engines share
RacedRules == <<<<10, 1, 1>>, <<0, 2, 2>>, <<0, 1, 3>>>>

InitRace ==
    /\ \E pick \in [1..MaxRules -> 1..Len(RacedRules)] :
          declared = [k \in 1..MaxRules |->
                         Rule(RuleIds[k], RacedRules[pick[k]][1],
                              ConditionsPool[RacedRules[pick[k]][2]],
                              ActionsPool[RacedRules[pick[k]][3]])]
    /\ rules = SortRules(declared)
    /\ constructed = TRUE
    /\ frames = [t \in Threads |-> IdleFrame]
    /\ returned = NothingKept
    /\ sorting = NotSorting
    /\ probe = NoProbe

\* list.sort() starts: the items are taken out of the list object
SortBegin ==
    /\ ~sorting.active
    /\ sorting' = [active |-> TRUE, saved |-> rules]
    /\ rules' = <<>>
    /\ UNCHANGED <<declared, constructed, frames, returned, probe>>

\* list.sort() ends: the sorted items are put back
SortEnd ==
    /\ sorting.active
    /\ rules' = SortRules(sorting.saved)
    /\ sorting' = NotSorting
    /\ UNCHANGED <<declared, constructed, frames, returned, probe>>

NextRace ==
    \/ \E c \in Contexts : Call(1, c)
    \/ RuleStep(1)
    \/ Return(1)
    \/ SortBegin
    \/ SortEnd

SpecRace == InitRace /\ [][NextRace]_vars

(***************************************************************************)
(* A caller whose contexts may lack a fact, or carry it with another type  *)
(* than the rule's expected value.  Its rules have the default priority    *)
(* and the action lists FactActions of the pool.                           *)
(***************************************************************************)
FactActions == 1..2

NextFacts ==
    \/ \E g \in 1..Len(ConditionsPool), a \in FactActions : AddRule(0, g, a)
    \/ NewEngine
    \/ \E c \in FactContexts : Evaluate(c)

SpecFacts == Init /\ [][NextFacts]_vars

(***************************************************************************)
(* Construction from raw data: Rule(id=..., conditions=..., actions=...)   *)
(* is validated field by field against the declared types of policy.py:    *)
(* conditions must be a dict (of any content), every action an Action      *)
(* whose type is one of the four literals.  A rule that fails validation   *)
(* raises ValidationError and does not come to exist.                      *)
(***************************************************************************)
ActionTypes == {"grant", "deny", "alert", "log"}

\* what callers pass as conditions=..., tagged as the dict or list it is
RawConditionsPool ==
    <<PyDict([all |-> <<Condition(QaStatus, "==", PyStr(<<"g", "r", "e", "e", "n">>))>>]),
      PyDict([all |-> <<Condition(QaStatus, "matches", PyStr(<<"g", "r">>))>>]),
      PyDict([any |-> <<Condition(QaStatus, "=~", PyStr(<<"g", "r">>)),
                        Condition(DefectsCount, "==", PyInt(0))>>]),
      PyDict([x \in {} |-> <<>>]),
      PyDict([when |-> <<Condition(QaStatus, "==", PyStr(<<"g", "r", "e", "e", "n">>))>>]),
      PyList(<<Condition(QaStatus, "==", PyStr(<<"g", "r", "e", "e", "n">>))>>)>>

\* what callers pass as actions=[...]
RawActionsPool ==
    <<ActionsPool[1],
      ActionsPool[2],
      <<Action("permit", SomeStr("start"), NoInt, NoStr, NoStr)>>>>

\* the Action model accepts the data: type is one of the literals
ActionValid(a) == a.type \in ActionTypes

\* the Rule model accepts the data
RuleValid(conditions, actions) ==
    /\ conditions.t = "map"
    /\ \A k \in 1..Len(actions) : ActionValid(actions[k])

\* Rule(...) from raw data, appended to the policy's rules when it validates
BuildRule(g, a) ==
    /\ ~constructed
    /\ Len(rules) < MaxRules
    /\ IF RuleValid(RawConditionsPool[g], RawActionsPool[a])
       THEN LET r == Rule(RuleIds[Len(rules) + 1], 0, RawConditionsPool[g].v,
                          RawActionsPool[a])
            IN  /\ rules' = Append(rules, r)
                /\ declared' = Append(declared, r)
                /\ probe' = [NoProbe EXCEPT !.op = "Rule", !.outcome = "constructed"]
       ELSE /\ probe' = [NoProbe EXCEPT !.op = "Rule", !.outcome = "ValidationError"]
            /\ UNCHANGED <<rules, declared>>
    /\ UNCHANGED <<constructed, frames, returned, sorting>>

NextBuild ==
    \/ \E g \in 1..Len(RawConditionsPool), a \in 1..Len(RawActionsPool) : BuildRule(g, a)
    \/ NewEngine
    \/ \E c \in Contexts : Evaluate(c)

SpecBuild == Init /\ [][NextBuild]_vars

(***************************************************************************)
(* The helpers called directly: _get_nested_value, _evaluate_condition and *)
(* _evaluate_rule are functions of their arguments.                        *)
(***************************************************************************)
UserCertifications ==
    <<"u", "s", "e", "r", ".", "c", "e", "r", "t", "i", "f", "i", "c", "a", "t", "i", "o", "n", "s">>

Certifications == <<"c", "e", "r", "t", "i", "f", "i", "c", "a", "t", "i", "o", "n", "s">>

\* the dicts passed as data / context
FactPool ==
    <<ContextPool[1],
      ContextPool[3],
      ContextPool[4],
      \* a scalar and a null where the rules expect mappings
      PyDict(<< <<<<"q", "a">>, PyStr(<<"g", "r", "e", "e", "n">>)>>,
                <<<<"d", "e", "f", "e", "c", "t", "s">>, PyNone>> >>),
      \* a user with two certifications
      PyDict(<<
        <<<<"q", "a">>, PyDict(<< <<<<"s", "t", "a", "t", "u", "s">>, PyStr(<<"g", "r", "e", "e", "n">>)>> >>)>>,
        <<<<"u", "s", "e", "r">>,
          PyDict(<< <<Certifications, PyList(<<PyStr(<<"q", "a">>), PyStr(<<"h", "v">>)>>)>> >>)>> >>),
      \* a user whose one certification is given as a plain string
      PyDict(<<
        <<<<"q", "a">>, PyDict(<< <<<<"s", "t", "a", "t", "u", "s">>, PyStr(<<"r", "e", "d">>)>> >>)>>,
        <<<<"u", "s", "e", "r">>, PyDict(<< <<Certifications, PyStr(<<"q", "a">>)>> >>)>> >>)>>

\* the dotted paths looked up
PathPool ==
    <<QaStatus,
      DefectsCount,
      <<"q", "a">>,
      QaStatus \o <<".", "c", "o", "d", "e">>,
      UserCertifications,
      <<>>,
      <<"q", "a", ".", ".", "s", "t", "a", "t", "u", "s">>,
      <<"d", "e", "f", "e", "c", "t", "s">>>>

\* the condition dicts evaluated
CondPool ==
    <<Condition(QaStatus, "==", PyStr(<<"g", "r", "e", "e", "n">>)),
      Condition(DefectsCount, ">", PyInt(0)),
      Condition(DefectsCount, "<=", PyInt(0)),
      Condition(QaStatus, "==", PyStr(<<"r", "e", "d">>)),
      Condition(UserCertifications, "not_in", PyStr(<<"q", "a">>)),
      Condition(UserCertifications, "not_in", PyStr(<<"e", "v">>)),
      Condition(UserCertifications, "not_in", PyList(<<PyStr(<<"q", "a">>), PyStr(<<"e", "v">>)>>)),
      Condition(QaStatus, "not_in", PyList(<<PyStr(<<"g", "r", "e", "e", "n">>)>>)),
      Condition(QaStatus, "in", PyList(<<PyStr(<<"g", "r", "e", "e", "n">>)>>)),
      Condition(UserCertifications, "contains", PyStr(<<"q", "a">>)),
      Condition(DefectsCount, "not_in", PyInt(0)),
      Condition(QaStatus, "matches", PyStr(<<"g", "r">>)),
      Condition(DefectsCount, "=~", PyInt(0)),
      Condition(DefectsCount, "!=", PyInt(0)),
      Condition(DefectsSeverity, "!=", PyNone),
      Condition(QaStatus, "!=", PyStr(<<"g", "r", "e", "e", "n">>))>>

\* the conditions the groups are made of, and those of the any list of a
\* group that has both keys
GroupConditions == {1, 2, 3, 4, 5, 9, 12, 14}
OtherConditions == {1, 2, 4}

\* the condition lists of at most MaxConditions conditions, by number
ConditionLists == UNION {[1..n -> GroupConditions] : n \in 0..MaxConditions}

Conditions(ks) == [j \in 1..Len(ks) |-> CondPool[ks[j]]]

\* a rule whose condition group has the one key kind, or both keys
GroupRule(kind, conds, others) ==
    Rule("probe", 0,
         IF kind = "all" THEN [all |-> conds]
         ELSE IF kind = "any" THEN [any |-> conds]
         ELSE [all |-> conds, any |-> others],
         <<>>)

\* the calls a caller may make: the helper and its arguments, not yet run
PendingCalls ==
    {[NoProbe EXCEPT !.op = "_get_nested_value", !.data = d, !.path = p,
                     !.outcome = "pending"] :
        d \in 1..Len(FactPool), p \in 1..Len(PathPool)}
    \cup
    {[NoProbe EXCEPT !.op = "_evaluate_condition", !.conds = <<k>>, !.data = d,
                     !.outcome = "pending"] :
        k \in 1..Len(CondPool), d \in 1..Len(FactPool)}
    \cup
    {[NoProbe EXCEPT !.op = "_evaluate_rule", !.group = kind, !.conds = ks, !.data = d,
                     !.outcome = "pending"] :
        kind \in {"all", "any"}, ks \in ConditionLists, d \in 1..Len(FactPool)}
    \cup
    {[NoProbe EXCEPT !.op = "_evaluate_rule", !.group = "both", !.conds = ks,
                     !.others = <<o>>, !.data = d, !.outcome = "pending"] :
        ks \in ConditionLists, o \in OtherConditions, d \in 1..Len(FactPool)}

InitHelpers ==
    /\ declared = <<>>
    /\ rules = <<>>
    /\ constructed = FALSE
    /\ frames = [t \in Threads |-> IdleFrame]
    /\ returned = NothingKept
    /\ sorting = NotSorting
    /\ probe \in PendingCalls

\* engine._get_nested_value(data, path)
LookupCall ==
    /\ probe.op = "_get_nested_value" /\ probe.outcome = "pending"
    /\ probe' = [probe EXCEPT !.outcome = "returned",
                              !.value = GetNestedValue(FactPool[probe.data],
                                                       PathPool[probe.path])]
    /\ UNCHANGED <<declared, rules, constructed, frames, returned, sorting>>

\* engine._evaluate_condition(condition, context)
ConditionCall ==
    /\ probe.op = "_evaluate_condition" /\ probe.outcome = "pending"
    /\ probe' = [probe EXCEPT !.outcome = EvaluateCondition(CondPool[probe.conds[1]],
                                                            FactPool[probe.data])]
    /\ UNCHANGED <<declared, rules, constructed, frames, returned, sorting>>

\* engine._evaluate_rule(rule, context)
RuleCall ==
    /\ probe.op = "_evaluate_rule" /\ probe.outcome = "pending"
    /\ probe' = [probe EXCEPT !.outcome = EvaluateRule(GroupRule(probe.group,
                                                                 Conditions(probe.conds),
                                                                 Conditions(probe.others)),
                                                       FactPool[probe.data])]
    /\ UNCHANGED <<declared, rules, constructed, frames, returned, sorting>>

NextHelpers ==
    \/ LookupCall
    \/ ConditionCall
    \/ RuleCall

SpecHelpers == InitHelpers /\ [][NextHelpers]_vars


(***************************************************************************)
(* Vocabulary of the properties, in terms of the Policy as declared.       *)
(***************************************************************************)
\* thread t's call has returned a PolicyDecision
HasReturned(t) == frames[t].pc = "returned"

\* declared rule k matches context c
Matches(k, c) == EvaluateRule(declared[k], ContextPool[c]) = "true"

\* declared rule k carries an action of the given type
Carries(k, type) == \E a \in 1..Len(declared[k].actions) : declared[k].actions[a].type = type

MatchingWith(c, type) == {k \in 1..Len(declared) : Matches(k, c) /\ Carries(k, type)}

\* the declaration position of the rule with the given id
DeclaredAt(id) == CHOOSE k \in 1..Len(declared) : declared[k].id = id

\* declared rule k comes before declared rule j in evaluation order
Before(k, j) ==
    \/ declared[k].priority > declared[j].priority
    \/ declared[k].priority = declared[j].priority /\ k <= j

\* the first action of the given type among the matching rules: first by
\* rule priority, then by declaration order of the rules, then by position
\* in the rule's action list
FirstAction(c, type) ==
    LET cand == MatchingWith(c, type)
        k == CHOOSE m \in cand : \A j \in cand : Before(m, j)
        acts == declared[k].actions
        a == CHOOSE m \in 1..Len(acts) :
                 /\ acts[m].type = type
                 /\ \A n \in 1..(m - 1) : acts[n].type # type
    IN  acts[a]

(***************************************************************************)
(* C1.  Deny overrides grant: whenever a rule that matches the context     *)
(* carries a deny action, the decision evaluate returns is deny, however   *)
(* many matching rules carry grant actions and whatever their priorities.  *)
(***************************************************************************)
DenyOverridesGrant ==
    \A t \in Threads :
        HasReturned(t) /\ MatchingWith(frames[t].ctx, "deny") # {}
            => frames[t].result.decision = "deny"

\* a deny decision although a matching grant-only rule outranks every
\* matching deny rule
DenyOverridesGrantWitness ==
    \E t \in Threads :
        /\ HasReturned(t)
        /\ frames[t].result.decision = "deny"
        /\ MatchingWith(frames[t].ctx, "deny") # {}
        /\ \E g \in MatchingWith(frames[t].ctx, "grant") :
              /\ ~Carries(g, "deny")
              /\ \A d \in MatchingWith(frames[t].ctx, "deny") :
                    declared[g].priority > declared[d].priority

(***************************************************************************)
(* C2.  Default deny: when no matching rule carries a grant or a deny      *)
(* action (nothing matches, the policy is empty, or only alert/log rules   *)
(* match), evaluate returns deny with no actions and the reason            *)
(* "No matching grant rules".                                              *)
(***************************************************************************)
DefaultDeny ==
    \A t \in Threads :
        /\ HasReturned(t)
        /\ MatchingWith(frames[t].ctx, "grant") = {}
        /\ MatchingWith(frames[t].ctx, "deny") = {}
        => /\ frames[t].result.decision = "deny"
           /\ frames[t].result.actions = <<>>
           /\ frames[t].result.reason = "No matching grant rules"

\* the default deny with a matching rule that only alerts and logs, while
\* the policy also holds a grant rule that does not match
DefaultDenyWitness ==
    \E t \in Threads :
        /\ HasReturned(t)
        /\ frames[t].result.reason = "No matching grant rules"
        /\ MatchingWith(frames[t].ctx, "alert") # {}
        /\ \E k \in 1..Len(declared) : Carries(k, "grant") /\ ~Matches(k, frames[t].ctx)

(***************************************************************************)
(* C3.  A call that ends without error returns grant exactly when some     *)
(* matching rule carries a grant action and no matching rule carries a     *)
(* deny action.                                                            *)
(***************************************************************************)
GrantIffGrantedAndNotDenied ==
    \A t \in Threads :
        HasReturned(t)
            => (frames[t].result.decision = "grant"
                  <=> /\ MatchingWith(frames[t].ctx, "grant") # {}
                      /\ MatchingWith(frames[t].ctx, "deny") = {})

\* a grant from a policy that also holds a deny rule, which does not match
GrantWitness ==
    \E t \in Threads :
        /\ HasReturned(t)
        /\ frames[t].result.decision = "grant"
        /\ \E k \in 1..Len(declared) : Carries(k, "deny") /\ ~Matches(k, frames[t].ctx)

(***************************************************************************)
(* C4.  Exhaustive evaluation: matched_rules of a returned decision holds  *)
(* the id of every rule that matches the context and of no other rule,     *)
(* each once, whether or not the rule decides the outcome.                 *)
(***************************************************************************)
MatchedRulesExhaustive ==
    \A t \in Threads :
        HasReturned(t)
            => LET m == frames[t].result.matched_rules
                   matching == {k \in 1..Len(declared) : Matches(k, frames[t].ctx)}
               IN  /\ {m[k] : k \in 1..Len(m)} = {declared[k].id : k \in matching}
                   /\ Len(m) = Cardinality(matching)

\* two matched rules, one of them a grant-only rule that loses to a deny
MatchedRulesExhaustiveWitness ==
    \E t \in Threads :
        /\ HasReturned(t)
        /\ Len(frames[t].result.matched_rules) >= 2
        /\ frames[t].result.decision = "deny"
        /\ \E g \in MatchingWith(frames[t].ctx, "grant") :
              /\ ~Carries(g, "deny")
              /\ \E k \in 1..Len(frames[t].result.matched_rules) :
                    frames[t].result.matched_rules[k] = declared[g].id

(***************************************************************************)
(* C5.  Stable priority: two matched rules of equal priority appear in     *)
(* matched_rules in the order in which the Policy declared them.           *)
(***************************************************************************)
StablePriority ==
    \A t \in Threads :
        HasReturned(t)
            => LET m == frames[t].result.matched_rules
               IN  \A i, j \in 1..Len(m) :
                       /\ i < j
                       /\ declared[DeclaredAt(m[i])].priority
                            = declared[DeclaredAt(m[j])].priority
                       => DeclaredAt(m[i]) < DeclaredAt(m[j])

\* two matched rules of equal priority
StablePriorityWitness ==
    \E t \in Threads :
        /\ HasReturned(t)
        /\ \E i, j \in 1..Len(frames[t].result.matched_rules) :
              /\ i < j
              /\ declared[DeclaredAt(frames[t].result.matched_rules[i])].priority
                   = declared[DeclaredAt(frames[t].result.matched_rules[j])].priority

(***************************************************************************)
(* C6.  Highest priority first: matched_rules of a returned decision is    *)
(* in non-increasing order of rule priority, whatever the declaration      *)
(* order.                                                                  *)
(***************************************************************************)
MatchedInPriorityOrder ==
    \A t \in Threads :
        HasReturned(t)
            => LET m == frames[t].result.matched_rules
               IN  \A i, j \in 1..Len(m) :
                       i < j => declared[DeclaredAt(m[i])].priority
                                  >= declared[DeclaredAt(m[j])].priority

\* the rule matched first was declared after the rule matched second
MatchedInPriorityOrderWitness ==
    \E t \in Threads :
        /\ HasReturned(t)
        /\ Len(frames[t].result.matched_rules) >= 2
        /\ DeclaredAt(frames[t].result.matched_rules[1])
             > DeclaredAt(frames[t].result.matched_rules[2])


(***************************************************************************)
(* C7.  Idempotence: every call of evaluate on a context gives the outcome *)
(* the first call on that context gave (the same decision, matched_rules,  *)
(* actions and reason, or the same exception), whatever calls were made in *)
(* between.                                                                *)
(***************************************************************************)
EvaluateIdempotent ==
    \A t \in Threads :
        frames[t].pc \in {"returned", "raised"}
            => frames[t].result = returned.first[frames[t].ctx]

\* a repeated call that returned a decision with matched rules, after a call
\* on another context
EvaluateIdempotentWitness ==
    /\ returned.repeat
    /\ frames[1].pc = "returned"
    /\ frames[1].result.matched_rules # <<>>
    /\ \E c \in Contexts : c # frames[1].ctx /\ returned.first[c] # NoResult

(***************************************************************************)
(* C8.  Reason of a deny caused by deny actions.                           *)
(* As claimed: the reason is the message of the first deny action (first   *)
(* by rule priority, then by declaration order) whenever that action has a *)
(* message, whatever string it is, and "Access denied by policy" only when *)
(* it has none.                                                            *)
(***************************************************************************)
DenyReasonIsFirstMessageIfPresent ==
    \A t \in Threads :
        HasReturned(t) /\ MatchingWith(frames[t].ctx, "deny") # {}
            => LET first == FirstAction(frames[t].ctx, "deny")
               IN  frames[t].result.reason =
                       IF first.message.some THEN first.message.s
                       ELSE "Access denied by policy"

(***************************************************************************)
(* C8, amended.  The reason is the message of the first deny action when   *)
(* that message is present and not the empty string, and "Access denied by *)
(* policy" when the first deny action has no message or an empty one;      *)
(* messages of later deny actions are never used.                          *)
(***************************************************************************)
DenyReasonIsFirstNonEmptyMessage ==
    \A t \in Threads :
        HasReturned(t) /\ MatchingWith(frames[t].ctx, "deny") # {}
            => LET first == FirstAction(frames[t].ctx, "deny")
               IN  frames[t].result.reason =
                       IF first.message.some /\ first.message.s # ""
                       THEN first.message.s
                       ELSE "Access denied by policy"

\* the first deny action has the empty message, a later one a message that
\* is not empty, and the reason is the fixed string
DenyReasonWitness ==
    \E t \in Threads :
        /\ HasReturned(t)
        /\ MatchingWith(frames[t].ctx, "deny") # {}
        /\ FirstAction(frames[t].ctx, "deny").message = SomeStr("")
        /\ \E k \in 2..Len(frames[t].result.actions) :
              /\ frames[t].result.actions[k].message.some
              /\ frames[t].result.actions[k].message.s # ""
        /\ frames[t].result.reason = "Access denied by policy"

(***************************************************************************)
(* C9.  Reason of a grant.                                                 *)
(* As claimed: the reason is the reason field of the first grant action    *)
(* whenever that field is present, whatever string it is, and "Access      *)
(* granted by policy" only when it is absent.                              *)
(***************************************************************************)
GrantReasonIsFirstReasonIfPresent ==
    \A t \in Threads :
        HasReturned(t) /\ frames[t].result.decision = "grant"
            => LET first == FirstAction(frames[t].ctx, "grant")
               IN  frames[t].result.reason =
                       IF first.reason.some THEN first.reason.s
                       ELSE "Access granted by policy"

(***************************************************************************)
(* C9, amended.  On a grant the reason is the reason field of the first    *)
(* grant action when that field is present and not the empty string, and   *)
(* "Access granted by policy" when the first grant action has no reason or *)
(* an empty one.                                                           *)
(***************************************************************************)
GrantReasonIsFirstNonEmptyReason ==
    \A t \in Threads :
        HasReturned(t) /\ frames[t].result.decision = "grant"
            => LET first == FirstAction(frames[t].ctx, "grant")
               IN  frames[t].result.reason =
                       IF first.reason.some /\ first.reason.s # ""
                       THEN first.reason.s
                       ELSE "Access granted by policy"

\* the first grant action has the empty reason, a later one a reason that is
\* not empty, and the reason is the fixed string
GrantReasonWitness ==
    \E t \in Threads :
        /\ HasReturned(t)
        /\ frames[t].result.decision = "grant"
        /\ FirstAction(frames[t].ctx, "grant").reason = SomeStr("")
        /\ \E k \in 2..Len(frames[t].result.actions) :
              /\ frames[t].result.actions[k].reason.some
              /\ frames[t].result.actions[k].reason.s # ""
        /\ frames[t].result.reason = "Access granted by policy"

(***************************************************************************)
(* C10.  Concurrent calls on one constructed engine: whatever the          *)
(* interleaving, each call ends with the outcome it has when it runs       *)
(* alone.                                                                  *)
(***************************************************************************)
ConcurrentCallsIsolated ==
    \A t \in Threads :
        frames[t].pc \in {"returned", "raised"}
            => frames[t].result = Evaluated(rules, frames[t].ctx)

\* one call has returned matched rules while another call, on a different
\* context, is in the middle of its loop
ConcurrentCallsIsolatedWitness ==
    \E t, u \in Threads :
        /\ t # u
        /\ frames[t].pc = "returned"
        /\ frames[t].result.matched_rules # <<>>
        /\ frames[u].pc = "loop"
        /\ frames[u].i > 1
        /\ frames[u].ctx # frames[t].ctx


(***************************************************************************)
(* Vocabulary of the properties about single conditions.                   *)
(***************************************************************************)
\* thread t's call has ended, in a decision or in an exception
HasEnded(t) == frames[t].pc \in {"returned", "raised"}

\* the conditions of rule r's group, in the order they are listed
ConditionsOf(r) ==
    IF "all" \in DOMAIN r.conditions THEN r.conditions["all"]
    ELSE IF "any" \in DOMAIN r.conditions THEN r.conditions["any"]
    ELSE <<>>

\* the group of rule r gets as far as its k-th condition for context cx: an
\* all group when every condition before it matched, an any group when none did
ConditionReached(r, k, cx) ==
    \A j \in 1..(k - 1) :
        EvaluateCondition(ConditionsOf(r)[j], cx)
            = (IF "all" \in DOMAIN r.conditions THEN "true" ELSE "false")

\* the loop over the rules gets as far as rule i for context cx
RuleReached(i, cx) == \A j \in 1..(i - 1) : EvaluateRule(rules[j], cx) # "error"

\* the conditions (rule i, condition k) the call for context cx evaluates
EvaluatedConditions(cx) ==
    {ik \in (1..Len(rules)) \X (1..2) :
        /\ ik[2] <= Len(ConditionsOf(rules[ik[1]]))
        /\ RuleReached(ik[1], cx)
        /\ ConditionReached(rules[ik[1]], ik[2], cx)}

ConditionAt(ik) == ConditionsOf(rules[ik[1]])[ik[2]]

OrderingOperators == {">", "<", ">=", "<="}

\* a and b are ordered with respect to each other: two numbers or two strings
\* (the scalars the pools compare)
MutuallyOrdered(a, b) ==
    \/ a.t \in {"int", "bool"} /\ b.t \in {"int", "bool"}
    \/ a.t = "str" /\ b.t = "str"

\* ik is an ordering comparison whose operands, for context cx, are not ordered
ComparesUnordered(ik, cx) ==
    /\ ConditionAt(ik).operator \in OrderingOperators
    /\ ~MutuallyOrdered(GetNestedValue(cx, ConditionAt(ik).field), ConditionAt(ik).value)

\* the path (a list of keys) leads to a value stored in the nested dicts
RECURSIVE HasPath(_, _)
HasPath(value, keys) ==
    \/ keys = <<>>
    \/ /\ value.t = "map"
       /\ \E k \in 1..Len(value.v) :
             value.v[k][1] = Head(keys) /\ HasPath(value.v[k][2], Tail(keys))

\* C11: a call that evaluates >, <, >= or <= on operands that are not ordered
\* with respect to each other ends in an exception delivered to the caller:
\* it returns no PolicyDecision, and the condition is not passed over as a
\* non-match
OrderingErrorDelivered ==
    \A t \in Threads :
        (HasEnded(t) /\ \E ik \in EvaluatedConditions(frames[t].context) :
                            ComparesUnordered(ik, frames[t].context))
            => frames[t].pc = "raised" /\ frames[t].result.kind = "raised"

\* a call compared a string fact with a number and ended in the exception
OrderingErrorWitness ==
    \E t \in Threads :
        /\ frames[t].pc = "raised"
        /\ \E ik \in EvaluatedConditions(frames[t].context) :
              /\ ComparesUnordered(ik, frames[t].context)
              /\ GetNestedValue(frames[t].context, ConditionAt(ik).field).t = "str"
              /\ ConditionAt(ik).value.t = "int"

AbsentTolerantOperators == {"==", ">", "<", ">=", "<=", "in", "not_in", "contains"}

\* C12: a missing fact is never an error: every condition a call evaluates
\* whose field path is absent from the context, under ==, >, <, >=, <=, in,
\* not_in or contains, raises nothing and does not match
MissingFactNeverMatchesNorRaises ==
    \A t \in Threads :
        HasEnded(t) =>
            \A ik \in EvaluatedConditions(frames[t].context) :
                (/\ ConditionAt(ik).operator \in AbsentTolerantOperators
                 /\ ~HasPath(frames[t].context, Split(ConditionAt(ik).field)))
                    => EvaluateCondition(ConditionAt(ik), frames[t].context) = "false"


(***************************************************************************)
(* Vocabulary of the properties about the helpers called directly.         *)
(***************************************************************************)
\* the direct call of helper op has run
Ran(op) == probe.op = op /\ probe.outcome # "pending"

ProbeContext == FactPool[probe.data]
ProbeConditions == Conditions(probe.conds)
ProbeCondition == CondPool[probe.conds[1]]
ProbeActual == GetNestedValue(ProbeContext, ProbeCondition.field)
ProbeKeys == Split(PathPool[probe.path])

\* x is an element of the list c
IsElementOf(x, c) == c.t = "list" /\ \E k \in 1..Len(c.v) : PyEq(x, c.v[k])

\* the value a path that HasPath leads to
RECURSIVE ValueAt(_, _)
ValueAt(value, keys) ==
    IF keys = <<>> THEN value
    ELSE ValueAt(value.v[CHOOSE k \in 1..Len(value.v) : value.v[k][1] = Head(keys)][2],
                 Tail(keys))

\* the j-th condition of the group of the direct call matches
ProbeMatches(j) == EvaluateCondition(ProbeConditions[j], ProbeContext) = "true"

\* C13: not_in is asymmetric: when the fact is a list the condition matches
\* exactly when the expected value is not an element of it; when the fact is
\* not a list, exactly when the fact is not an element of the (list of)
\* expected values
NotInAsymmetric ==
    (Ran("_evaluate_condition") /\ ProbeCondition.operator = "not_in") =>
        /\ ProbeActual.t = "list" =>
              probe.outcome = Bool3(~IsElementOf(ProbeCondition.value, ProbeActual))
        /\ (ProbeActual.t # "list" /\ ProbeCondition.value.t = "list") =>
              probe.outcome = Bool3(~IsElementOf(ProbeActual, ProbeCondition.value))

\* a list fact holds the expected scalar, and not_in did not match
NotInAsymmetricWitness ==
    /\ Ran("_evaluate_condition")
    /\ ProbeCondition.operator = "not_in"
    /\ ProbeActual.t = "list"
    /\ ProbeCondition.value.t = "str"
    /\ IsElementOf(ProbeCondition.value, ProbeActual)
    /\ probe.outcome = "false"

\* C16: the nested lookup never raises: it returns the value the path leads
\* to through the mappings, and the absent result (None) when a segment's key
\* is missing or the value reached is not a mapping while segments remain
LookupReturnsReachedOrAbsent ==
    Ran("_get_nested_value") =>
        /\ probe.outcome = "returned"
        /\ IF HasPath(ProbeContext, ProbeKeys)
           THEN PyEq(probe.value, ValueAt(ProbeContext, ProbeKeys))
           ELSE probe.value.t = "null"

\* a lookup met a value that is not a mapping with segments left, and
\* returned the absent result
LookupWitness ==
    /\ Ran("_get_nested_value")
    /\ Len(ProbeKeys) > 1
    /\ HasPath(ProbeContext, <<Head(ProbeKeys)>>)
    /\ ValueAt(ProbeContext, <<Head(ProbeKeys)>>).t = "str"
    /\ probe.outcome = "returned"
    /\ probe.value.t = "null"

\* C17: an all group matches exactly when every condition of its list
\* matches; an empty all list matches every context
AllGroupMatchesIffEveryConditionDoes ==
    (Ran("_evaluate_rule") /\ probe.group = "all") =>
        (probe.outcome = "true" <=> \A j \in 1..Len(probe.conds) : ProbeMatches(j))

\* an all group of two different conditions of which only the first matches
\* did not match, and neither did it raise
AllGroupWitness ==
    /\ Ran("_evaluate_rule")
    /\ probe.group = "all"
    /\ Len(probe.conds) = 2
    /\ ProbeMatches(1)
    /\ EvaluateCondition(ProbeConditions[2], ProbeContext) = "false"
    /\ probe.outcome = "false"

\* C18 as stated: an any group matches exactly when at least one condition of
\* its list matches; an empty any list matches no context
AnyGroupMatchesIffSomeConditionDoes ==
    (Ran("_evaluate_rule") /\ probe.group = "any") =>
        (probe.outcome = "true" <=> \E j \in 1..Len(probe.conds) : ProbeMatches(j))

\* C18 amended: an any group matches exactly when one of its conditions
\* matches and every condition listed before that one evaluates, without
\* raising, to no match; an empty any list matches no context
AnyGroupMatchesIffFirstMatchIsReached ==
    (Ran("_evaluate_rule") /\ probe.group = "any") =>
        (probe.outcome = "true" <=>
            \E j \in 1..Len(probe.conds) :
                /\ ProbeMatches(j)
                /\ \A i \in 1..(j - 1) :
                      EvaluateCondition(ProbeConditions[i], ProbeContext) = "false")

\* an any group whose second condition matches ended in the exception its
\* first condition raised
AnyGroupWitness ==
    /\ Ran("_evaluate_rule")
    /\ probe.group = "any"
    /\ Len(probe.conds) = 2
    /\ EvaluateCondition(ProbeConditions[1], ProbeContext) = "error"
    /\ ProbeMatches(2)
    /\ probe.outcome = "error"


(***************************************************************************)
(* Properties of construction from raw data.                               *)
(***************************************************************************)
KnownOperators == {"==", "!=", ">", "<", ">=", "<=", "in", "not_in", "contains"}

\* C14: constructing a Policy fails with ValidationError whenever a condition
\* of a rule's group has an operator outside the nine recognised ones: no
\* policy, and so no engine and no evaluation, ever holds such a condition
UnknownOperatorNeverConstructed ==
    \A k \in 1..Len(rules) :
        \A j \in 1..Len(ConditionsOf(rules[k])) :
            ConditionsOf(rules[k])[j].operator \in KnownOperators

\* C15: constructing a Rule fails with ValidationError whenever its condition
\* group has neither an all key nor an any key: no such rule ever exists
NeitherKeyNeverConstructed ==
    \A k \in 1..Len(rules) :
        "all" \in DOMAIN rules[k].conditions \/ "any" \in DOMAIN rules[k].conditions


(***************************************************************************)
(* Properties of what evaluate leaves alone.                               *)
(***************************************************************************)
\* this step is a step of thread t's evaluate: its call entered, advanced or
\* ended
EvaluateStep(t) ==
    \/ frames'[t].pc # frames[t].pc
    \/ frames'[t].ctx # frames[t].ctx
    \/ frames'[t].i # frames[t].i

\* C19: evaluate changes nothing: across every evaluate call, whether it
\* returns a decision or ends in an exception, the policy's rule list (order,
\* rules, conditions, actions) is as before, and the context dict the caller
\* passed is as the caller made it
EvaluateChangesNothing ==
    [][\A t \in Threads :
          EvaluateStep(t) =>
              /\ rules' = rules
              /\ declared' = declared
              /\ constructed' = constructed
              /\ PyEq(frames'[t].context, ContextPool[frames'[t].ctx])]_vars

\* a call over a policy of MaxRules rules ended in an exception after a rule
\* had matched, and the rules and the context are as they were
EvaluateChangesNothingWitness ==
    \E t \in Threads :
        /\ frames[t].pc = "raised"
        /\ frames[t].matched_rules # <<>>
        /\ Len(rules) = MaxRules
        /\ rules = SortRules(declared)
        /\ PyEq(frames[t].context, ContextPool[frames[t].ctx])


(***************************************************************************)
(* Properties of evaluate running while an engine is constructed.          *)
(***************************************************************************)
\* C20: no evaluate call observes a partially sorted or incomplete rule
\* list, also while a second engine is constructed over the same Policy:
\* every call that returns has gone through all the rules of the policy and
\* returns what the completely sorted list gives
EvaluateSeesCompleteRules ==
    \A t \in Threads :
        HasReturned(t) =>
            /\ frames[t].i = Len(declared) + 1
            /\ frames[t].result = Evaluated(SortRules(declared), frames[t].ctx)


(***************************************************************************)
(* Properties of the errors evaluate delivers.                             *)
(***************************************************************************)
\* the conditions whose evaluation raised in the call for context cx
FailedConditions(cx) ==
    {ik \in EvaluatedConditions(cx) : EvaluateCondition(ConditionAt(ik), cx) = "error"}

\* C21: every error that reaches the caller of evaluate identifies the rule
\* id, the field path and the operator of the condition whose evaluation
\* failed
ErrorIdentifiesCondition ==
    \A t \in Threads :
        frames[t].pc = "raised" =>
            \E ik \in FailedConditions(frames[t].context) :
                /\ frames[t].result.error.rule_id.some
                /\ frames[t].result.error.rule_id.s = rules[ik[1]].id
                /\ frames[t].result.error.operator.some
                /\ frames[t].result.error.operator.s = ConditionAt(ik).operator
                /\ frames[t].result.error.field.some
                /\ frames[t].result.error.field.s = ConditionAt(ik).field


(***************************************************************************)
(* Properties of the actions a decision carries.                           *)
(***************************************************************************)
\* the actions of the rules with the given ids, rule after rule, each rule's
\* actions in the order the rule declares them
RECURSIVE ActionsOfRules(_)
ActionsOfRules(ids) ==
    IF ids = <<>> THEN <<>>
    ELSE declared[DeclaredAt(Head(ids))].actions \o ActionsOfRules(Tail(ids))

\* C22: in every returned decision, actions is exactly the subsequence of the
\* matched rules' actions (rules in priority order, actions in declaration
\* order) whose type equals the decision: alert and log actions are never
\* returned, and no grant action is returned on a deny
ActionsAreThoseOfTheDecision ==
    \A t \in Threads :
        HasReturned(t) =>
            frames[t].result.actions
                = SelectSeq(ActionsOfRules(frames[t].result.matched_rules),
                            LAMBDA a : a.type = frames[t].result.decision)

\* a deny whose matched rules also carry actions of another type, returned
\* with its deny actions only
ActionsAreThoseOfTheDecisionWitness ==
    \E t \in Threads :
        /\ HasReturned(t)
        /\ frames[t].result.decision = "deny"
        /\ frames[t].result.actions # <<>>
        /\ \E a \in 1..Len(ActionsOfRules(frames[t].result.matched_rules)) :
              ActionsOfRules(frames[t].result.matched_rules)[a].type \in {"grant", "alert"}
        /\ \A a \in 1..Len(frames[t].result.actions) :
              frames[t].result.actions[a].type = "deny"


(***************************************************************************)
(* Further properties of the helpers called directly.                      *)
(***************************************************************************)
\* C23: a condition whose operator is none of the nine recognised ones never
\* matches and never raises, whatever the context and the expected value
UnknownOperatorNeverMatchesNorRaises ==
    (Ran("_evaluate_condition") /\ ProbeCondition.operator \notin KnownOperators)
        => probe.outcome = "false"

\* a condition with an unknown operator, whose fact equals the expected
\* value, was evaluated to no match
UnknownOperatorWitness ==
    /\ Ran("_evaluate_condition")
    /\ ProbeCondition.operator \notin KnownOperators
    /\ PyEq(ProbeActual, ProbeCondition.value)
    /\ probe.outcome = "false"

\* the orders in which a list of n conditions can be written
ListOrders(n) == {p \in [1..n -> 1..n] : \A i, j \in 1..n : p[i] = p[j] => i = j}

\* the outcome of the group of the direct call with its conditions in order p
PermutedOutcome(p) ==
    EvaluateRule(GroupRule(probe.group,
                           [j \in 1..Len(probe.conds) |-> ProbeConditions[p[j]]],
                           <<>>),
                 ProbeContext)

\* some condition of the group of the direct call raises when evaluated
SomeConditionRaises ==
    \E j \in 1..Len(probe.conds) :
        EvaluateCondition(ProbeConditions[j], ProbeContext) = "error"

\* C25 as stated: the outcome of an all or any group (match, no match or
\* error) is the same for every permutation of its condition list
OrderUnobservable ==
    (Ran("_evaluate_rule") /\ probe.group \in {"all", "any"}) =>
        \A p \in ListOrders(Len(probe.conds)) : PermutedOutcome(p) = probe.outcome

\* C25 amended: when no condition of the group raises for the context, the
\* outcome is the same for every permutation of the list; when one raises,
\* whether an all group matches and whether an any group ends in no match
\* still do not depend on the order
OrderUnobservableUnlessRaising ==
    (Ran("_evaluate_rule") /\ probe.group \in {"all", "any"}) =>
        \A p \in ListOrders(Len(probe.conds)) :
            /\ ~SomeConditionRaises => PermutedOutcome(p) = probe.outcome
            /\ probe.group = "all" =>
                  (PermutedOutcome(p) = "true" <=> probe.outcome = "true")
            /\ probe.group = "any" =>
                  (PermutedOutcome(p) = "false" <=> probe.outcome = "false")

\* a group of two conditions short-circuited before the one that raises; in
\* the other order it ends in the exception
OrderWitness ==
    /\ Ran("_evaluate_rule")
    /\ probe.group \in {"all", "any"}
    /\ Len(probe.conds) = 2
    /\ probe.outcome # "error"
    /\ PermutedOutcome(<<2, 1>>) = "error"

\* C26: the lookup of an absent path gives an explicit absent result that
\* differs from what the lookup of a present null gives
AbsentDiffersFromNull ==
    (Ran("_get_nested_value") /\ ~HasPath(ProbeContext, ProbeKeys)) =>
        \A d \in 1..Len(FactPool), q \in 1..Len(PathPool) :
            (/\ HasPath(FactPool[d], Split(PathPool[q]))
             /\ ValueAt(FactPool[d], Split(PathPool[q])).t = "null")
                => ~PyEq(probe.value, GetNestedValue(FactPool[d], PathPool[q]))

\* C28: when a condition group has both an all and an any key, the all list
\* alone decides: the rule matches exactly when every all condition matches,
\* and the any list is not evaluated (an exception comes from the all list)
BothKeysAllDecides ==
    (Ran("_evaluate_rule") /\ probe.group = "both") =>
        /\ probe.outcome = "true" <=> \A j \in 1..Len(probe.conds) : ProbeMatches(j)
        /\ probe.outcome = "error" => SomeConditionRaises

\* a group with both keys did not match on a failing all condition although
\* its any condition holds
BothKeysWitness ==
    /\ Ran("_evaluate_rule")
    /\ probe.group = "both"
    /\ \E j \in 1..Len(probe.conds) :
          EvaluateCondition(ProbeConditions[j], ProbeContext) = "false"
    /\ EvaluateCondition(Conditions(probe.others)[1], ProbeContext) = "true"
    /\ probe.outcome = "false"

\* the direct call evaluates the != condition k on a context that lacks its
\* field path
NotEqualOnAbsent(k) ==
    /\ CondPool[k].operator = "!="
    /\ ~HasPath(ProbeContext, Split(CondPool[k].field))

\* C30: a != condition on an absent field path matches when its expected
\* value is not null and does not match when it is null, so a rule guarded
\* by such a condition alone fires when the fact is missing
NotEqualMatchesOnAbsent ==
    /\ (Ran("_evaluate_condition") /\ NotEqualOnAbsent(probe.conds[1]))
          => probe.outcome = Bool3(ProbeCondition.value.t # "null")
    /\ (/\ Ran("_evaluate_rule")
        /\ probe.group \in {"all", "any"}
        /\ Len(probe.conds) = 1
        /\ NotEqualOnAbsent(probe.conds[1]))
          => probe.outcome = Bool3(ProbeCondition.value.t # "null")

\* a rule guarded by one != condition matched a context lacking the fact
NotEqualWitness ==
    /\ Ran("_evaluate_rule")
    /\ probe.group = "all"
    /\ Len(probe.conds) = 1
    /\ NotEqualOnAbsent(probe.conds[1])
    /\ probe.outcome = "true"


(***************************************************************************)
(* Properties of rules whose condition group has neither key.              *)
(***************************************************************************)
\* the condition group of rule r has neither an all nor an any key
HasNeitherKey(r) == "all" \notin DOMAIN r.conditions /\ "any" \notin DOMAIN r.conditions

\* C24: a rule whose condition group has neither an all nor an any key never
\* matches: its id is in no call's matched_rules, and every action of a
\* returned decision is an action of a rule that has a key and was matched
NeitherKeyNeverMatches ==
    \A t \in Threads :
        HasEnded(t) =>
            /\ \A k \in 1..Len(rules) :
                  HasNeitherKey(rules[k]) =>
                      \A m \in 1..Len(frames[t].matched_rules) :
                          frames[t].matched_rules[m] # rules[k].id
            /\ \A a \in 1..Len(frames[t].result.actions) :
                  \E k \in 1..Len(rules) :
                      /\ ~HasNeitherKey(rules[k])
                      /\ \E m \in 1..Len(frames[t].result.matched_rules) :
                            frames[t].result.matched_rules[m] = rules[k].id
                      /\ \E b \in 1..Len(rules[k].actions) :
                            rules[k].actions[b] = frames[t].result.actions[a]

\* a policy whose grant rule keeps its condition, which holds for the
\* context, under another key than all or any: the call returned deny
NeitherKeyWitness ==
    \E t \in Threads :
        /\ HasReturned(t)
        /\ frames[t].result.decision = "deny"
        /\ frames[t].result.matched_rules = <<>>
        /\ \E k \in 1..Len(rules) :
              /\ "when" \in DOMAIN rules[k].conditions
              /\ EvaluateCondition(rules[k].conditions["when"][1], frames[t].context) = "true"
              /\ rules[k].actions[1].type = "grant"


(***************************************************************************)
(* Properties of repeated construction and of calls after a failed call.   *)
(***************************************************************************)
\* the ids of a rule list, in its order
Ids(rs) == [k \in 1..Len(rs) |-> rs[k].id]

\* C27: engine construction leaves the policy's rules a permutation of the
\* declared rules (none lost, none duplicated) in descending priority order,
\* and constructing further engines over the policy changes neither the
\* order nor what evaluate returns
ConstructionPermutesOnce ==
    /\ [](constructed =>
            /\ Len(rules) = Len(declared)
            /\ \A k \in 1..Len(declared) :
                  \E j \in 1..Len(rules) :
                      /\ rules[j].id = declared[k].id
                      /\ rules[j] = declared[k]
                      /\ \A m \in 1..Len(rules) : rules[m].id = declared[k].id => m = j
            /\ \A k, j \in 1..Len(rules) :
                  k < j => rules[k].priority >= rules[j].priority)
    /\ [][constructed =>
            /\ Ids(rules') = Ids(rules)
            /\ rules' # rules =>
                  \A c \in Contexts : Evaluated(rules', c) = Evaluated(rules, c)]_vars

\* an engine was constructed over a full policy whose declared order is not
\* the priority order
ConstructionWitness ==
    /\ constructed
    /\ Len(rules) = MaxRules
    /\ Ids(rules) # Ids(declared)
    /\ \E t \in Threads : HasReturned(t)

\* C29: a call that ends in an error returns no decision, and every call made
\* after it returns what the engine returns when the failing call never
\* happened
ErrorLeavesEngineUsable ==
    /\ \A t \in Threads :
          frames[t].pc = "raised" =>
              /\ frames[t].result.kind = "raised"
              /\ frames[t].result.decision = ""
              /\ frames[t].result.actions = <<>>
    /\ (\E c \in Contexts : returned.first[c].kind = "raised") =>
          \A t \in Threads :
              HasEnded(t) => frames[t].result = Evaluated(rules, frames[t].ctx)

\* a call for one context raised, and a later call for another context
\* returned a grant
ErrorLeavesEngineUsableWitness ==
    /\ returned.repeat
    /\ \E c \in Contexts : returned.first[c].kind = "raised"
    /\ HasReturned(1)
    /\ frames[1].result.decision = "grant"
    /\ frames[1].result = returned.first[frames[1].ctx]

=============================================================================
